---- MODULE Spec2Model ----
(***************************************************************************)
(* Model of helm-set-status: the status vocabulary (pkg/status/status.go), *)
(* the transition engine SetStatus (pkg/status/status.go) and the entry    *)
(* point runWithConfigFactory (main.go).  The release store is the         *)
(* external Helm storage; it is modelled by its three-operation contract.  *)
(*                                                                         *)
(* Strings produced by fmt.Sprintf / fmt.Errorf are modelled as sequences  *)
(* of tokens in the order the format string emits them.                    *)
(***************************************************************************)
EXTENDS Integers, Sequences, FiniteSets, TLC

(* ------------------------------ bounds ------------------------------- *)

\* highest revision of release "r1" present in the initial store
MaxRev == 2
\* longest --from list an invocation is given
MaxFrom == 2
\* number of invocations in one behaviour
MaxRuns == 1
\* number of invocations in one behaviour of the sequence specification
MaxSeq == 3

(* -------------------------- status vocabulary ------------------------ *)

\* var ValidStatuses = []string{...}
ValidStatuses ==
  << "unknown", "deployed", "superseded", "failed", "uninstalling",
     "pending-install", "pending-upgrade", "pending-rollback" >>

\* the release.Status constants ParseStatus returns
Statuses ==
  { "StatusUnknown", "StatusDeployed", "StatusSuperseded", "StatusFailed",
    "StatusUninstalling", "StatusPendingInstall", "StatusPendingUpgrade",
    "StatusPendingRollback" }

\* release.Status.String(): the canonical string of a status constant
StatusString(s) ==
  CASE s = "StatusUnknown"         -> "unknown"
    [] s = "StatusDeployed"        -> "deployed"
    [] s = "StatusSuperseded"      -> "superseded"
    [] s = "StatusFailed"          -> "failed"
    [] s = "StatusUninstalling"    -> "uninstalling"
    [] s = "StatusPendingInstall"  -> "pending-install"
    [] s = "StatusPendingUpgrade"  -> "pending-upgrade"
    [] s = "StatusPendingRollback" -> "pending-rollback"

\* fmt's %q verb: the value between double quotes
Quoted(s) == << "\"", s, "\"" >>

\* the nil error
Nil ==
  [ kind |-> "nil", msg |-> << >>, releaseName |-> "", revision |-> 0,
    currentStatus |-> "", allowedStatuses |-> << >>, input |-> "",
    cause |-> "" ]

\* ParseStatus with the pending-upgrade case returning StatusPendingRollback
ParseStatusAliased(s) ==
  CASE s = "unknown"          -> [ status |-> "StatusUnknown",         err |-> Nil ]
    [] s = "deployed"         -> [ status |-> "StatusDeployed",        err |-> Nil ]
    [] s = "superseded"       -> [ status |-> "StatusSuperseded",      err |-> Nil ]
    [] s = "failed"           -> [ status |-> "StatusFailed",          err |-> Nil ]
    [] s = "uninstalling"     -> [ status |-> "StatusUninstalling",    err |-> Nil ]
    [] s = "pending-install"  -> [ status |-> "StatusPendingInstall",  err |-> Nil ]
    [] s = "pending-upgrade"  -> [ status |-> "StatusPendingRollback", err |-> Nil ]
    [] s = "pending-rollback" -> [ status |-> "StatusPendingRollback", err |-> Nil ]
    [] OTHER ->
         [ status |-> "StatusUnknown",
           err    |-> [ Nil EXCEPT !.kind  = "InvalidStatus",
                                   !.input = s,
                                   !.msg   = << "invalid status: ", s >> ] ]

\* func ParseStatus(s string) (release.Status, error)
ParseStatus(s) ==
  CASE s = "unknown"          -> [ status |-> "StatusUnknown",         err |-> Nil ]
    [] s = "deployed"         -> [ status |-> "StatusDeployed",        err |-> Nil ]
    [] s = "superseded"       -> [ status |-> "StatusSuperseded",      err |-> Nil ]
    [] s = "failed"           -> [ status |-> "StatusFailed",          err |-> Nil ]
    [] s = "uninstalling"     -> [ status |-> "StatusUninstalling",    err |-> Nil ]
    [] s = "pending-install"  -> [ status |-> "StatusPendingInstall",  err |-> Nil ]
    [] s = "pending-upgrade"  -> [ status |-> "StatusPendingUpgrade",  err |-> Nil ]
    [] s = "pending-rollback" -> [ status |-> "StatusPendingRollback", err |-> Nil ]
    [] OTHER ->
         [ status |-> "StatusUnknown",
           err    |-> [ Nil EXCEPT !.kind  = "InvalidStatus",
                                   !.input = s,
                                   !.msg   = << "invalid status: ", s >> ] ]

RECURSIVE ValidStatusesLoop(_, _)
\* the loop of ValidStatusesString, from index i on with the result so far
ValidStatusesLoop(i, result) ==
  IF i > Len(ValidStatuses) THEN result
  ELSE ValidStatusesLoop(i + 1,
         (IF i > 1 THEN Append(result, ", ") ELSE result)
           \o << ValidStatuses[i] >>)

\* ValidStatusesString without the separators
ValidStatusesStringNoSeparator == ValidStatuses

\* func ValidStatusesString() string
ValidStatusesString == ValidStatusesLoop(1, << >>)

\* func statusListToStrings(statuses []release.Status) []string
statusListToStrings(statuses) ==
  [ i \in 1..Len(statuses) |-> StatusString(statuses[i]) ]

\* fmt's %v of a []string: "[" the elements separated by spaces "]"
FmtStrings(strs) ==
  LET RECURSIVE Elems(_)
      Elems(i) == IF i > Len(strs) THEN << >>
                  ELSE (IF i > 1 THEN << " " >> ELSE << >>)
                         \o << strs[i] >> \o Elems(i + 1)
  IN  << "[" >> \o Elems(1) \o << "]" >>

(* ------------------------------ errors -------------------------------- *)

\* &ReleaseNotFoundError{ReleaseName: releaseName} and its Error()
ReleaseNotFoundError(releaseName) ==
  [ Nil EXCEPT !.kind        = "ReleaseNotFound",
               !.releaseName = releaseName,
               !.msg = << "release " >> \o Quoted(releaseName)
                         \o << " not found" >> ]

\* PreconditionError without the allowed statuses
PreconditionErrorNoList(currentStatus, allowedStatuses) ==
  [ Nil EXCEPT !.kind          = "PreconditionFailed",
               !.currentStatus = currentStatus,
               !.msg = << "current status " >>
                         \o Quoted(StatusString(currentStatus))
                         \o << " is not in allowed list" >> ]

\* &PreconditionError{CurrentStatus, AllowedStatuses} and its Error()
PreconditionError(currentStatus, allowedStatuses) ==
  [ Nil EXCEPT !.kind            = "PreconditionFailed",
               !.currentStatus   = currentStatus,
               !.allowedStatuses = allowedStatuses,
               !.msg = << "current status " >>
                         \o Quoted(StatusString(currentStatus))
                         \o << " is not in allowed list: " >>
                         \o FmtStrings(statusListToStrings(allowedStatuses)) ]

(* --------------------------- release store ---------------------------- *)

\* a release record: Name, Version and the Info fields SetStatus touches
Release(name, version, status, description, lastDeployed) ==
  [ name |-> name, version |-> version, status |-> status,
    description |-> description, lastDeployed |-> lastDeployed ]

\* the nil *release.Release a failed lookup returns
NoRelease == Release("", 0, "", << >>, 0)

\* the store driver's not-found error
ErrReleaseNotFound ==
  [ Nil EXCEPT !.kind = "ErrReleaseNotFound",
               !.msg  = << "release: not found" >> ]

\* the revisions of release name held by the store
Versions(store, name) == { k[2] : k \in { d \in DOMAIN store : d[1] = name } }

\* cfg.Releases.Get(name, version)
StorageGet(store, name, version) ==
  IF << name, version >> \in DOMAIN store
  THEN [ rel |-> store[<< name, version >>], err |-> Nil ]
  ELSE [ rel |-> NoRelease, err |-> ErrReleaseNotFound ]

\* cfg.Releases.Last(name): the record with the highest revision
StorageLast(store, name) ==
  IF Versions(store, name) = {}
  THEN [ rel |-> NoRelease, err |-> ErrReleaseNotFound ]
  ELSE LET v == CHOOSE x \in Versions(store, name) :
                   \A y \in Versions(store, name) : y <= x
       IN  [ rel |-> store[<< name, v >>], err |-> Nil ]

\* cfg.Releases.Update(rel): overwrite the record at its own (name, version);
\* updateOk is FALSE for a driver whose Update fails
StorageUpdate(store, rel, updateOk) ==
  IF updateOk /\ << rel.name, rel.version >> \in DOMAIN store
  THEN [ store |-> [ store EXCEPT ![<< rel.name, rel.version >>] = rel ],
         err   |-> Nil ]
  ELSE [ store |-> store,
         err   |-> ErrReleaseNotFound ]

(* ------------------------- transition engine -------------------------- *)

\* Resolve with the revision ignored: the latest record whatever was asked
ResolveAlwaysLast(store, releaseName, revision) ==
  LET l == StorageLast(store, releaseName)
  IN  [ rel   |-> l.rel,
        calls |-> << "Last" >>,
        err   |-> IF l.err.kind # "nil"
                  THEN ReleaseNotFoundError(releaseName)
                  ELSE Nil ]

\* Resolve with a failed Get reported as ReleaseNotFound
ResolveNotFoundOnGet(store, releaseName, revision) ==
  LET g == IF revision > 0 THEN StorageGet(store, releaseName, revision)
                           ELSE StorageLast(store, releaseName)
  IN  [ rel   |-> g.rel,
        calls |-> IF revision > 0 THEN << "Get" >> ELSE << "Last" >>,
        err   |-> IF g.err.kind # "nil"
                  THEN ReleaseNotFoundError(releaseName)
                  ELSE Nil ]

\* SetStatus, resolving the record: Get for revision > 0, Last otherwise
Resolve(store, releaseName, revision) ==
  IF revision > 0
  THEN LET g == StorageGet(store, releaseName, revision)
       IN  [ rel   |-> g.rel,
             calls |-> << "Get" >>,
             err   |-> IF g.err.kind # "nil"
                       THEN [ Nil EXCEPT
                                !.kind        = "RevisionLookupFailed",
                                !.releaseName = releaseName,
                                !.revision    = revision,
                                !.cause       = g.err.kind,
                                !.msg = << "failed to get release ",
                                           releaseName, " revision ",
                                           ToString(revision), ": " >>
                                          \o g.err.msg ]
                       ELSE Nil ]
  ELSE LET l == StorageLast(store, releaseName)
       IN  [ rel   |-> l.rel,
             calls |-> << "Last" >>,
             err   |-> IF l.err.kind # "nil"
                       THEN ReleaseNotFoundError(releaseName)
                       ELSE Nil ]

RECURSIVE AllowedLoop(_, _, _)
\* SetStatus, the loop over allowedFromStatuses from index i on
AllowedLoop(currentStatus, allowedFromStatuses, i) ==
  IF i > Len(allowedFromStatuses) THEN FALSE
  ELSE IF currentStatus = allowedFromStatuses[i] THEN TRUE
  ELSE AllowedLoop(currentStatus, allowedFromStatuses, i + 1)

\* PreconditionPasses comparing the first allowed status only
PreconditionPassesFirstOnly(currentStatus, allowedFromStatuses) ==
  IF Len(allowedFromStatuses) > 0
  THEN currentStatus = allowedFromStatuses[1]
  ELSE TRUE

\* PreconditionPasses without the length test: an empty list allows nothing
PreconditionPassesNoEmptyCase(currentStatus, allowedFromStatuses) ==
  AllowedLoop(currentStatus, allowedFromStatuses, 1)

\* PreconditionPasses requiring the current status to be listed just once
PreconditionPassesOnce(currentStatus, allowedFromStatuses) ==
  IF Len(allowedFromStatuses) > 0
  THEN Cardinality({ i \in 1..Len(allowedFromStatuses) :
                       allowedFromStatuses[i] = currentStatus }) = 1
  ELSE TRUE

\* SetStatus, the precondition check: TRUE when the change may proceed
PreconditionPasses(currentStatus, allowedFromStatuses) ==
  IF Len(allowedFromStatuses) > 0
  THEN AllowedLoop(currentStatus, allowedFromStatuses, 1)
  ELSE TRUE

\* UpdateStatus writing the status constant instead of its String()
UpdateStatusRawDescription(rel, status, now) ==
  [ rel EXCEPT !.status       = status,
               !.description  = << "status set to ", status >>,
               !.lastDeployed = now ]

\* UpdateStatus adding its text to the description the record had
UpdateStatusAppendDescription(rel, status, now) ==
  [ rel EXCEPT !.status       = status,
               !.description  = rel.description
                                  \o << "status set to ", StatusString(status) >>,
               !.lastDeployed = now ]

\* UpdateStatus writing the time into the description as well
UpdateStatusTimedDescription(rel, status, now) ==
  [ rel EXCEPT !.status       = status,
               !.description  = << "status set to ", StatusString(status),
                                   " at ", ToString(now) >>,
               !.lastDeployed = now ]

\* SetStatus, the mutation of the resolved record
UpdateStatus(rel, status, now) ==
  [ rel EXCEPT !.status       = status,
               !.description  = << "status set to ", StatusString(status) >>,
               !.lastDeployed = now ]

\* Persist storing the record at the latest revision of the release
PersistAtLatest(store, rel, releaseName, updateOk) ==
  LET l == StorageLast(store, releaseName)
      u == StorageUpdate(store, [ rel EXCEPT !.version = l.rel.version ],
                         updateOk)
  IN  [ store |-> u.store,
        calls |-> << "Update" >>,
        err   |-> u.err ]

\* Persist calling Update a second time when the first call failed
PersistRetrying(store, rel, releaseName, updateOk) ==
  LET u == StorageUpdate(store, rel, updateOk)
  IN  [ store |-> u.store,
        calls |-> IF u.err.kind # "nil" THEN << "Update", "Update" >>
                  ELSE << "Update" >>,
        err   |-> IF u.err.kind # "nil"
                  THEN [ Nil EXCEPT
                           !.kind        = "PersistenceFailed",
                           !.releaseName = releaseName,
                           !.cause       = u.err.kind,
                           !.msg = << "failed to update release ",
                                      releaseName, ": " >> \o u.err.msg ]
                  ELSE Nil ]

\* Persist storing the record as a new revision of the release
PersistAsNewRevision(store, rel, releaseName, updateOk) ==
  LET new == [ rel EXCEPT !.version = rel.version + 1 ]
      key == << new.name, new.version >>
  IN  [ store |-> [ k \in DOMAIN store \cup { key } |->
                      IF k = key THEN new ELSE store[k] ],
        calls |-> << "Update" >>,
        err   |-> Nil ]

\* SetStatus, persisting the record and classifying a failed Update
Persist(store, rel, releaseName, updateOk) ==
  LET u == StorageUpdate(store, rel, updateOk)
  IN  [ store |-> u.store,
        calls |-> << "Update" >>,
        err   |-> IF u.err.kind # "nil"
                  THEN [ Nil EXCEPT
                           !.kind        = "PersistenceFailed",
                           !.releaseName = releaseName,
                           !.cause       = u.err.kind,
                           !.msg = << "failed to update release ",
                                      releaseName, ": " >> \o u.err.msg ]
                  ELSE Nil ]

\* the store once the record it handed out has been assigned to: a driver
\* that shares its records (the in-memory driver) sees the assignment at
\* once, a driver that decodes a copy per lookup does not
StoreAfterAssignment(store, rel, shared) ==
  IF shared
  THEN [ store EXCEPT ![<< rel.name, rel.version >>] = rel ]
  ELSE store

\* SetStatus persisting the new status before it checks the precondition
SetStatusWriteBeforeCheck(store, releaseName, status, revision, allowedFromStatuses, now, updateOk, shared) ==
  LET r == Resolve(store, releaseName, revision)
      p == Persist(store, UpdateStatus(r.rel, status, now), releaseName,
                   updateOk)
  IN  IF r.err.kind # "nil"
      THEN [ err |-> r.err, store |-> store, calls |-> r.calls,
             resolved |-> NoRelease ]
      ELSE IF ~ PreconditionPasses(r.rel.status, allowedFromStatuses)
      THEN [ err      |-> PreconditionError(r.rel.status, allowedFromStatuses),
             store    |-> p.store,
             calls    |-> r.calls \o p.calls,
             resolved |-> r.rel ]
      ELSE [ err      |-> p.err,
             store    |-> p.store,
             calls    |-> r.calls \o p.calls,
             resolved |-> r.rel ]

\* SetStatus returning at once when the record has the target status
SetStatusSkipUnchanged(store, releaseName, status, revision, allowedFromStatuses, now, updateOk, shared) ==
  LET r == Resolve(store, releaseName, revision)
  IN  IF r.err.kind # "nil"
      THEN [ err |-> r.err, store |-> store, calls |-> r.calls,
             resolved |-> NoRelease ]
      ELSE IF ~ PreconditionPasses(r.rel.status, allowedFromStatuses)
      THEN [ err      |-> PreconditionError(r.rel.status, allowedFromStatuses),
             store    |-> store,
             calls    |-> r.calls,
             resolved |-> r.rel ]
      ELSE IF r.rel.status = status
      THEN [ err |-> Nil, store |-> store, calls |-> r.calls,
             resolved |-> r.rel ]
      ELSE LET m == UpdateStatus(r.rel, status, now)
               p == Persist(StoreAfterAssignment(store, m, shared), m,
                            releaseName, updateOk)
           IN  [ err      |-> p.err,
                 store    |-> p.store,
                 calls    |-> r.calls \o p.calls,
                 resolved |-> r.rel ]

\* SetStatus checking the precondition on the latest revision's status
SetStatusCheckLatest(store, releaseName, status, revision, allowedFromStatuses, now, updateOk, shared) ==
  LET r == Resolve(store, releaseName, revision)
      l == StorageLast(store, releaseName)
  IN  IF r.err.kind # "nil"
      THEN [ err |-> r.err, store |-> store, calls |-> r.calls,
             resolved |-> NoRelease ]
      ELSE IF ~ PreconditionPasses(l.rel.status, allowedFromStatuses)
      THEN [ err      |-> PreconditionError(l.rel.status, allowedFromStatuses),
             store    |-> store,
             calls    |-> r.calls,
             resolved |-> r.rel ]
      ELSE LET m == UpdateStatus(r.rel, status, now)
               p == Persist(StoreAfterAssignment(store, m, shared), m,
                            releaseName, updateOk)
           IN  [ err      |-> p.err,
                 store    |-> p.store,
                 calls    |-> r.calls \o p.calls,
                 resolved |-> r.rel ]

\* func SetStatus(cfg, releaseName, status, revision, allowedFromStatuses) error
SetStatus(store, releaseName, status, revision, allowedFromStatuses, now, updateOk, shared) ==
  LET r == Resolve(store, releaseName, revision)
  IN  IF r.err.kind # "nil"
      THEN [ err |-> r.err, store |-> store, calls |-> r.calls,
             resolved |-> NoRelease ]
      ELSE IF ~ PreconditionPasses(r.rel.status, allowedFromStatuses)
      THEN [ err      |-> PreconditionError(r.rel.status, allowedFromStatuses),
             store    |-> store,
             calls    |-> r.calls,
             resolved |-> r.rel ]
      ELSE LET m == UpdateStatus(r.rel, status, now)
               p == Persist(StoreAfterAssignment(store, m, shared), m,
                            releaseName, updateOk)
           IN  [ err      |-> p.err,
                 store    |-> p.store,
                 calls    |-> r.calls \o p.calls,
                 resolved |-> r.rel ]

(* ----------------------------- entry point ---------------------------- *)

\* the error a failing configuration factory returns
ErrConfig ==
  [ Nil EXCEPT !.kind = "ErrConfig",
               !.msg  = << "config creation failed" >> ]

\* runWithConfigFactory, the target status: ParseStatus and the wrapped error
ParseTarget(statusStr) ==
  LET p == ParseStatus(statusStr)
  IN  [ status |-> p.status,
        err    |-> IF p.err.kind # "nil"
                   THEN [ p.err EXCEPT
                            !.msg = p.err.msg \o << "\nValid statuses: " >>
                                      \o ValidStatusesString ]
                   ELSE Nil ]

RECURSIVE ParseFrom(_, _, _)
\* runWithConfigFactory, the loop over fromStatuses from index i on
ParseFrom(fromStatuses, i, allowedFromStatuses) ==
  IF i > Len(fromStatuses)
  THEN [ allowed |-> allowedFromStatuses, err |-> Nil ]
  ELSE LET p == ParseStatus(fromStatuses[i])
       IN  IF p.err.kind # "nil"
           THEN [ allowed |-> allowedFromStatuses,
                  err |-> [ p.err EXCEPT
                              !.msg = << "invalid --from status " >>
                                        \o Quoted(fromStatuses[i])
                                        \o << ": " >> \o p.err.msg
                                        \o << "\nValid statuses: " >>
                                        \o ValidStatusesString ] ]
           ELSE ParseFrom(fromStatuses, i + 1,
                          Append(allowedFromStatuses, p.status))

\* HandleSetStatusError skipping without printing the error
HandleSetStatusErrorSilent(err, noFail) ==
  IF err.kind = "PreconditionFailed" /\ noFail
  THEN [ err |-> Nil, out |-> << << "Skipped\n" >> >> ]
  ELSE [ err |-> err, out |-> << >> ]

\* HandleSetStatusError without the no-fail test: the error always returns
HandleSetStatusErrorNoSkip(err, noFail) ==
  [ err |-> err, out |-> << >> ]

\* HandleSetStatusError without the errors.As test: no-fail skips any error
HandleSetStatusErrorSkipAll(err, noFail) ==
  IF noFail
  THEN [ err |-> Nil, out |-> << << "Skipped: " >> \o err.msg \o << "\n" >> >> ]
  ELSE [ err |-> err, out |-> << >> ]

\* CreateConfiguration returning the factory's error as it came
CreateConfigurationUnwrapped(factoryOk) ==
  [ calls |-> << "factory" >>,
    err   |-> IF ~ factoryOk THEN ErrConfig ELSE Nil ]

\* runWithConfigFactory, the configFactory call and its wrapped error
CreateConfiguration(factoryOk) ==
  [ calls |-> << "factory" >>,
    err   |-> IF ~ factoryOk
              THEN [ Nil EXCEPT !.kind  = "ConfigurationUnavailable",
                                !.cause = ErrConfig.kind,
                                !.msg   = << "failed to create configuration: " >>
                                            \o ErrConfig.msg ]
              ELSE Nil ]

\* HandleSetStatusError skipping a failed Update as well under no-fail
HandleSetStatusErrorSkipPersist(err, noFail) ==
  IF err.kind \in { "PreconditionFailed", "PersistenceFailed" } /\ noFail
  THEN [ err |-> Nil, out |-> << << "Skipped: " >> \o err.msg \o << "\n" >> >> ]
  ELSE [ err |-> err, out |-> << >> ]

\* HandleSetStatusError printing the skip line and returning the error too
HandleSetStatusErrorSkipAndFail(err, noFail) ==
  IF err.kind = "PreconditionFailed" /\ noFail
  THEN [ err |-> err, out |-> << << "Skipped: " >> \o err.msg \o << "\n" >> >> ]
  ELSE [ err |-> err, out |-> << >> ]

\* runWithConfigFactory, what becomes of an error SetStatus returned
HandleSetStatusError(err, noFail) ==
  IF err.kind = "PreconditionFailed" /\ noFail
  THEN [ err |-> Nil, out |-> << << "Skipped: " >> \o err.msg \o << "\n" >> >> ]
  ELSE [ err |-> err, out |-> << >> ]

\* SuccessMessage always in the form without a revision
SuccessMessageNoRevision(releaseName, rev, statusStr) ==
  << "Release " >> \o Quoted(releaseName)
    \o << " status set to " >> \o Quoted(statusStr) \o << "\n" >>

\* runWithConfigFactory, the line printed after a successful SetStatus
SuccessMessage(releaseName, rev, statusStr) ==
  IF rev > 0
  THEN << "Release " >> \o Quoted(releaseName)
         \o << " revision ", ToString(rev), " status set to " >>
         \o Quoted(statusStr) \o << "\n" >>
  ELSE << "Release " >> \o Quoted(releaseName)
         \o << " status set to " >> \o Quoted(statusStr) \o << "\n" >>

\* the result of an invocation that never reached SetStatus
Early(store, err, calls) ==
  [ err |-> err, out |-> << >>, store |-> store, calls |-> calls,
    called |-> FALSE, setErr |-> Nil, resolved |-> NoRelease,
    allowed |-> << >> ]

\* runWithConfigFactory creating the configuration before it validates
runWithConfigFactoryFactoryFirst(store, releaseName, statusStr, rev, fromStatuses, noFail, factoryOk, updateOk, shared, now) ==
  LET t == ParseTarget(statusStr)
      f == ParseFrom(fromStatuses, 1, << >>)
      c == CreateConfiguration(factoryOk)
  IN  IF c.err.kind # "nil" THEN Early(store, c.err, c.calls)
      ELSE IF t.err.kind # "nil" THEN Early(store, t.err, c.calls)
      ELSE IF f.err.kind # "nil" THEN Early(store, f.err, c.calls)
      ELSE LET s == SetStatus(store, releaseName, t.status, rev, f.allowed,
                              now, updateOk, shared)
               h == HandleSetStatusError(s.err, noFail)
           IN  [ err      |-> IF s.err.kind # "nil" THEN h.err ELSE Nil,
                 out      |-> IF s.err.kind # "nil" THEN h.out
                              ELSE << SuccessMessage(releaseName, rev,
                                                     statusStr) >>,
                 store    |-> s.store,
                 calls    |-> c.calls \o s.calls,
                 called   |-> TRUE,
                 setErr   |-> s.err,
                 resolved |-> s.resolved,
                 allowed  |-> f.allowed ]

\* runWithConfigFactory validating the --from entries before the target
runWithConfigFactoryFromFirst(store, releaseName, statusStr, rev, fromStatuses, noFail, factoryOk, updateOk, shared, now) ==
  LET t == ParseTarget(statusStr)
      f == ParseFrom(fromStatuses, 1, << >>)
      c == CreateConfiguration(factoryOk)
  IN  IF f.err.kind # "nil" THEN Early(store, f.err, << >>)
      ELSE IF t.err.kind # "nil" THEN Early(store, t.err, << >>)
      ELSE IF c.err.kind # "nil" THEN Early(store, c.err, c.calls)
      ELSE LET s == SetStatus(store, releaseName, t.status, rev, f.allowed,
                              now, updateOk, shared)
               h == HandleSetStatusError(s.err, noFail)
           IN  [ err      |-> IF s.err.kind # "nil" THEN h.err ELSE Nil,
                 out      |-> IF s.err.kind # "nil" THEN h.out
                              ELSE << SuccessMessage(releaseName, rev,
                                                     statusStr) >>,
                 store    |-> s.store,
                 calls    |-> c.calls \o s.calls,
                 called   |-> TRUE,
                 setErr   |-> s.err,
                 resolved |-> s.resolved,
                 allowed  |-> f.allowed ]

\* func runWithConfigFactory(cmd, args, rev, fromStatuses, noFail, configFactory) error
runWithConfigFactory(store, releaseName, statusStr, rev, fromStatuses, noFail, factoryOk, updateOk, shared, now) ==
  LET t == ParseTarget(statusStr)
      f == ParseFrom(fromStatuses, 1, << >>)
      c == CreateConfiguration(factoryOk)
  IN  IF t.err.kind # "nil" THEN Early(store, t.err, << >>)
      ELSE IF f.err.kind # "nil" THEN Early(store, f.err, << >>)
      ELSE IF c.err.kind # "nil" THEN Early(store, c.err, c.calls)
      ELSE LET s == SetStatus(store, releaseName, t.status, rev, f.allowed,
                              now, updateOk, shared)
               h == HandleSetStatusError(s.err, noFail)
           IN  [ err      |-> IF s.err.kind # "nil" THEN h.err ELSE Nil,
                 out      |-> IF s.err.kind # "nil" THEN h.out
                              ELSE << SuccessMessage(releaseName, rev,
                                                     statusStr) >>,
                 store    |-> s.store,
                 calls    |-> c.calls \o s.calls,
                 called   |-> TRUE,
                 setErr   |-> s.err,
                 resolved |-> s.resolved,
                 allowed  |-> f.allowed ]

(* ---------------------------- state machine --------------------------- *)

VARIABLES
  releases,   \* the release store: (name, version) -> record
  clock,      \* the time helmtime.Now() returns next
  pc,         \* "idle": no invocation; "done": an invocation has returned
  before,     \* the release store as the invocation found it
  request,    \* the arguments of the invocation
  result,     \* what the invocation returned, printed and called
  texts,      \* a pair of strings handed to ParseStatus
  parses,     \* what ParseStatus returned for them, << >> before the calls
  procs,      \* two concurrent invocations: the locals of each SetStatus call
  lastWrite   \* the latest Update made by one of them, and what it found

vars ==
  << releases, clock, pc, before, request, result, texts, parses, procs,
     lastWrite >>

\* release names given on the command line; "r3" has no record, and "r2" has
\* one but is never named
ReleaseNames == { "r1", "r3" }

\* values of --revision: a negative one, latest, the revisions of "r1" and
\* one beyond them
RevInputs == (-1)..(MaxRev + 1)

\* the (name, revision) pairs given: every revision input for "r1", and for
\* the missing "r3" latest and one explicit revision
Selectors ==
  { sel \in ReleaseNames \X RevInputs : sel[1] = "r3" => sel[2] \in { 0, 1 } }

\* status strings given as the STATUS argument
StatusInputs == { ValidStatuses[i] : i \in 1..Len(ValidStatuses) } \cup { "bogus" }

\* valid status strings given with --from
FromInputs == { "deployed", "failed" }

\* the lists of at most n valid --from strings
ValidFromLists(n) == UNION { [ 1..m -> FromInputs ] : m \in 0..n }

\* the --from lists, of length at most MaxFrom: the valid ones, valid ones
\* followed by an invalid string, and valid ones followed by two different
\* invalid strings
FromLists ==
  ValidFromLists(MaxFrom)
    \cup { Append(l, "bogus") : l \in ValidFromLists(MaxFrom - 1) }
    \cup { l \o << "bogus", "Deployed" >> : l \in ValidFromLists(MaxFrom - 2) }

\* what fails in an invocation: nothing, the configuration factory, the
\* Update of a driver that decodes a copy per lookup, or the Update of a
\* driver that shares its records (the in-memory driver wrapped by
\* failingUpdateDriver)
Faults == { "none", "factory", "update", "updateShared" }

\* the faults that make Update fail
UpdateFaults == { "update", "updateShared" }

\* a store before the first invocation: "r1" with revisions 1..MaxRev, the
\* latest in the given status and the earlier ones superseded, and "r2" with
\* a single failed revision
InitialReleases(latest) ==
  [ k \in ({ "r1" } \X (1..MaxRev)) \cup { << "r2", 1 >> } |->
      IF k[1] = "r1"
      THEN Release("r1", k[2],
                   IF k[2] = MaxRev THEN latest ELSE "StatusSuperseded",
                   << "Upgrade complete" >>, 0)
      ELSE Release("r2", 1, "StatusFailed", << "Install failed" >>, 0) ]

\* the request of no invocation
NoRequest ==
  [ releaseName |-> "", statusStr |-> "", rev |-> 0, fromStatuses |-> << >>,
    noFail |-> FALSE, fault |-> "none", now |-> 0 ]

\* the statuses the latest revision of "r1" starts in: two that --from lists
\* can name and one that they cannot
InitialStatuses == { "StatusDeployed", "StatusFailed", "StatusPendingUpgrade" }

\* the two invocations that run side by side
Procs == { "p1", "p2" }

\* the locals of a SetStatus call that has not started
NoCall ==
  [ at |-> "start", releaseName |-> "", status |-> "", revision |-> 0,
    allowedFromStatuses |-> << >>, currentStatus |-> "", rel |-> NoRelease,
    err |-> Nil ]

\* no Update has been made
NoWrite ==
  [ proc |-> "", key |-> << "", 0 >>, statusAtWrite |-> "",
    latestAtWrite |-> 0 ]

Init ==
  /\ \E latest \in InitialStatuses : releases = InitialReleases(latest)
  /\ clock = 1
  /\ pc = "idle"
  /\ before = releases
  /\ request = NoRequest
  /\ result = Early(releases, Nil, << >>)
  /\ texts = << "", "" >>
  /\ parses = << >>
  /\ procs = [ p \in Procs |-> NoCall ]
  /\ lastWrite = NoWrite

\* one invocation of the command, from its start to its return
Run(releaseName, statusStr, rev, fromStatuses, noFail, fault) ==
  /\ pc = "idle"
  /\ clock <= MaxRuns
  /\ result' = runWithConfigFactory(releases, releaseName, statusStr, rev,
                                    fromStatuses, noFail, fault # "factory",
                                    fault \notin UpdateFaults,
                                    fault = "updateShared", clock)
  /\ releases' = result'.store
  /\ before' = releases
  /\ request' = [ releaseName |-> releaseName, statusStr |-> statusStr,
                  rev |-> rev, fromStatuses |-> fromStatuses,
                  noFail |-> noFail, fault |-> fault, now |-> clock ]
  /\ clock' = clock + 1
  /\ pc' = "done"
  /\ UNCHANGED << texts, parses, procs, lastWrite >>

\* the process exits: the request and its result are gone, the store stays
Exit ==
  /\ pc = "done"
  /\ pc' = "idle"
  /\ before' = releases
  /\ request' = NoRequest
  /\ result' = Early(releases, Nil, << >>)
  /\ UNCHANGED << releases, clock, texts, parses, procs, lastWrite >>

\* an invocation with any arguments and any fault
Invoke ==
  /\ pc = "idle"
  /\ clock <= MaxRuns
  /\ \E sel \in Selectors, statusStr \in StatusInputs,
        fromStatuses \in FromLists, noFail \in BOOLEAN, fault \in Faults :
          Run(sel[1], statusStr, sel[2], fromStatuses, noFail, fault)

Next == Invoke \/ Exit

Spec == Init /\ [][Next]_vars

(* ----------------------- ParseStatus on its own ------------------------ *)

\* strings handed to ParseStatus: the canonical ones, the empty string,
\* other case, padding, another separator and an unrelated word
ParseInputs ==
  { ValidStatuses[i] : i \in 1..Len(ValidStatuses) }
    \cup { "", "Deployed", "DEPLOYED", " deployed", "deployed ",
           "pending_install", "bogus" }

InitParse ==
  /\ texts \in ParseInputs \X ParseInputs
  /\ parses = << >>
  /\ releases = InitialReleases("StatusDeployed")
  /\ clock = 1
  /\ pc = "idle"
  /\ before = releases
  /\ request = NoRequest
  /\ result = Early(releases, Nil, << >>)
  /\ procs = [ p \in Procs |-> NoCall ]
  /\ lastWrite = NoWrite

\* ParseStatus is called on both strings
Parse ==
  /\ parses = << >>
  /\ parses' = << ParseStatus(texts[1]), ParseStatus(texts[2]) >>
  /\ UNCHANGED << releases, clock, pc, before, request, result, texts, procs,
                  lastWrite >>

NextParse == Parse

SpecParse == InitParse /\ [][NextParse]_vars

(* ------------------- two invocations side by side --------------------- *)

\* target statuses of the concurrent calls
RaceTargets == { "StatusDeployed", "StatusFailed", "StatusSuperseded" }

\* revision arguments of the concurrent calls: latest and the revisions
\* "r1" starts with
RaceRevisions == 0..MaxRev

\* allowedFromStatuses of the concurrent calls, of length at most MaxFrom
RaceAllowed ==
  UNION { [ 1..m -> { "StatusDeployed", "StatusFailed" } ] : m \in 0..MaxFrom }

\* SetStatus up to the assignment of rel.Info: the lookup, the precondition
\* and the mutation of the record held by the call; the store is not
\* written
ReadStep(store, releaseName, status, revision, allowedFromStatuses, now) ==
  LET r    == Resolve(store, releaseName, revision)
      call == [ NoCall EXCEPT !.releaseName         = releaseName,
                              !.status              = status,
                              !.revision            = revision,
                              !.allowedFromStatuses = allowedFromStatuses ]
  IN  IF r.err.kind # "nil"
      THEN [ call EXCEPT !.at = "done", !.err = r.err ]
      ELSE IF ~ PreconditionPasses(r.rel.status, allowedFromStatuses)
      THEN [ call EXCEPT !.at            = "done",
                         !.currentStatus = r.rel.status,
                         !.rel           = r.rel,
                         !.err = PreconditionError(r.rel.status,
                                                   allowedFromStatuses) ]
      ELSE [ call EXCEPT !.at            = "read",
                         !.currentStatus = r.rel.status,
                         !.rel           = UpdateStatus(r.rel, status, now) ]

\* WriteStep looking at the stored status again: no Update when it is no
\* longer allowed
WriteStepRechecked(store, call) ==
  IF PreconditionPasses(store[<< call.rel.name, call.rel.version >>].status,
                        call.allowedFromStatuses)
  THEN Persist(store, call.rel, call.releaseName, TRUE)
  ELSE [ store |-> store, calls |-> << >>, err |-> Nil ]

\* SetStatus from the Update on: the record held by the call is stored
WriteStep(store, call) == Persist(store, call.rel, call.releaseName, TRUE)

\* invocation p runs SetStatus on "r1" up to its Update
RaceRead(p, status, revision, allowedFromStatuses) ==
  /\ procs[p].at = "start"
  /\ procs' = [ procs EXCEPT ![p] = ReadStep(releases, "r1", status, revision,
                                             allowedFromStatuses, clock) ]
  /\ clock' = clock + 1
  /\ UNCHANGED << releases, pc, before, request, result, texts, parses,
                  lastWrite >>

\* invocation p makes its Update and returns
RaceWrite(p) ==
  /\ procs[p].at = "read"
  /\ LET w == WriteStep(releases, procs[p])
     IN  /\ releases' = w.store
         /\ procs' = [ procs EXCEPT ![p].at = "done", ![p].err = w.err ]
  /\ lastWrite' =
       [ proc          |-> p,
         key           |-> << procs[p].rel.name, procs[p].rel.version >>,
         statusAtWrite |->
           releases[<< procs[p].rel.name, procs[p].rel.version >>].status,
         latestAtWrite |-> StorageLast(releases, "r1").rel.version ]
  /\ UNCHANGED << clock, pc, before, request, result, texts, parses >>

\* somebody else stores a new revision of "r1", once
RaceCreate ==
  /\ StorageLast(releases, "r1").rel.version <= MaxRev
  /\ LET v == StorageLast(releases, "r1").rel.version + 1
     IN  releases' =
           [ k \in DOMAIN releases \cup { << "r1", v >> } |->
               IF k \in DOMAIN releases
               THEN releases[k]
               ELSE Release("r1", v, "StatusDeployed",
                            << "Upgrade complete" >>, 0) ]
  /\ UNCHANGED << clock, pc, before, request, result, texts, parses, procs,
                  lastWrite >>

\* a step of either invocation with any arguments
RaceReads ==
  \E p \in Procs, status \in RaceTargets, revision \in RaceRevisions,
     allowedFromStatuses \in RaceAllowed :
       RaceRead(p, status, revision, allowedFromStatuses)

RaceWrites == \E p \in Procs : RaceWrite(p)

NextRace == RaceReads \/ RaceWrites \/ RaceCreate

SpecRace == Init /\ [][NextRace]_vars

(* ---------------------- invocations in sequence ----------------------- *)

\* the (name, revision) pairs given in a sequence: latest and the first
\* revision of "r1", and the missing "r3"
SeqSelectors == { << "r1", 0 >>, << "r1", 1 >>, << "r3", 0 >> }

\* status strings given in a sequence
SeqStatusInputs == { "deployed", "failed", "bogus" }

\* --from lists given in a sequence
SeqFromLists == ValidFromLists(1)

\* what fails in an invocation of a sequence
SeqFaults == { "none", "update" }

\* one invocation of a sequence, from its start to its return
RunSeq(releaseName, statusStr, rev, fromStatuses, noFail, fault) ==
  /\ result' = runWithConfigFactory(releases, releaseName, statusStr, rev,
                                    fromStatuses, noFail, fault # "factory",
                                    fault \notin UpdateFaults,
                                    fault = "updateShared", clock)
  /\ releases' = result'.store
  /\ before' = releases
  /\ request' = [ releaseName |-> releaseName, statusStr |-> statusStr,
                  rev |-> rev, fromStatuses |-> fromStatuses,
                  noFail |-> noFail, fault |-> fault, now |-> clock ]
  /\ clock' = clock + 1
  /\ pc' = "done"
  /\ UNCHANGED << texts, parses, procs, lastWrite >>

\* the next invocation of the sequence
InvokeSeq ==
  /\ pc = "idle"
  /\ clock <= MaxSeq
  /\ \E sel \in SeqSelectors, statusStr \in SeqStatusInputs,
        fromStatuses \in SeqFromLists, noFail \in BOOLEAN,
        fault \in SeqFaults :
          RunSeq(sel[1], statusStr, sel[2], fromStatuses, noFail, fault)

NextSeq == InvokeSeq \/ Exit

SpecSeq == Init /\ [][NextSeq]_vars

(* ------------------------------ properties ---------------------------- *)

\* an invocation has returned
Done == pc = "done"

\* an invocation has returned and it reached SetStatus
Called == Done /\ result.called

\* the highest revision of a release in a store, 0 when it has none
LatestVersion(store, name) ==
  LET vs == { k[2] : k \in { d \in DOMAIN store : d[1] = name } }
  IN  IF vs = {} THEN 0
      ELSE CHOOSE v \in vs : \A w \in vs : w <= v

\* the (name, revision) the request designates in the store it was run on
ReqKey ==
  IF request.rev > 0
  THEN << request.releaseName, request.rev >>
  ELSE << request.releaseName, LatestVersion(before, request.releaseName) >>

\* the request designates a stored record
Found == ReqKey \in DOMAIN before

\* the status the designated record had when the invocation started
CurrentStatus == before[ReqKey].status

\* the elements of a sequence
Range(seq) == { seq[i] : i \in 1..Len(seq) }

\* a message contains a token
Contains(msg, token) == \E i \in 1..Len(msg) : msg[i] = token

\* the eight canonical status strings
Canonical == Range(ValidStatuses)

\* C1: with a non-empty allowed list, a found record and a working Update,
\* SetStatus succeeds exactly when the record's current status is in the
\* list, and returns PreconditionFailed when it is not.
C1_MembershipPrecondition ==
  (Called /\ Found /\ request.fault \notin UpdateFaults
          /\ Len(result.allowed) > 0) =>
     /\ (result.setErr.kind = "nil") <=> (CurrentStatus \in Range(result.allowed))
     /\ (CurrentStatus \notin Range(result.allowed))
          => result.setErr.kind = "PreconditionFailed"

\* C1 witness: a two-element list whose second element matches, and success
C1_Witness ==
  /\ Called /\ Found /\ request.fault \notin UpdateFaults
  /\ Len(result.allowed) = 2
  /\ result.allowed[1] # CurrentStatus
  /\ result.allowed[2] = CurrentStatus
  /\ result.setErr.kind = "nil"

\* C2: with an empty allowed list SetStatus never returns PreconditionFailed,
\* whatever the current status and the target.
C2_EmptyAllowedNeverFails ==
  (Called /\ Len(result.allowed) = 0) =>
     /\ result.setErr.kind # "PreconditionFailed"
     /\ result.err.kind # "PreconditionFailed"

\* C2 witness: an empty list, a found record outside every --from alphabet
C2_Witness ==
  /\ Called /\ Found /\ Len(result.allowed) = 0
  /\ CurrentStatus = "StatusSuperseded"
  /\ request.statusStr = "pending-rollback"
  /\ result.setErr.kind = "nil"

\* C3: when SetStatus returns PreconditionFailed no Update was issued and the
\* store is what it was before the invocation.
C3_PreconditionFailedWritesNothing ==
  (Called /\ result.setErr.kind = "PreconditionFailed") =>
     /\ ~ Contains(result.calls, "Update")
     /\ releases = before

\* C3 witness: a precondition failure on a found record
C3_Witness ==
  /\ Called /\ Found
  /\ result.setErr.kind = "PreconditionFailed"
  /\ CurrentStatus \notin Range(result.allowed)

\* C4: after a successful SetStatus the record at the resolved key has the
\* target status and the description "status set to <canonical string>".
C4_SuccessWritesStatus ==
  (Called /\ result.setErr.kind = "nil") =>
     /\ Found
     /\ request.statusStr \in Canonical
     /\ StatusString(releases[ReqKey].status) = request.statusStr
     /\ releases[ReqKey].description = << "status set to ", request.statusStr >>

\* C4 witness: a success that changes the status of the latest revision
C4_Witness ==
  /\ Called /\ Found /\ result.setErr.kind = "nil"
  /\ request.rev = 0
  /\ request.statusStr = "uninstalling"
  /\ CurrentStatus = "StatusPendingUpgrade"
  /\ releases[ReqKey].status = "StatusUninstalling"

\* C5: a successful SetStatus changes only status, description and timestamp
\* of the record at the resolved key; its name and revision, every other
\* revision and every other release keep their values, as does the key set.
C5_RevisionIsolation ==
  (Called /\ result.setErr.kind = "nil") =>
     /\ Found
     /\ DOMAIN releases = DOMAIN before
     /\ \A k \in DOMAIN before : k # ReqKey => releases[k] = before[k]
     /\ releases[ReqKey].name = before[ReqKey].name
     /\ releases[ReqKey].version = before[ReqKey].version

\* C5 witness: revision 1 of "r1" changed while a later revision exists
C5_Witness ==
  /\ Called /\ result.setErr.kind = "nil"
  /\ request.releaseName = "r1" /\ request.rev = 1
  /\ releases[<< "r1", 1 >>].status # before[<< "r1", 1 >>].status
  /\ << "r1", 2 >> \in DOMAIN releases

\* the invocation of the request on the store it found, with the skip flag
\* set as given
Rerun(noFail) ==
  runWithConfigFactory(before, request.releaseName, request.statusStr,
                       request.rev, request.fromStatuses, noFail,
                       request.fault # "factory",
                       request.fault \notin UpdateFaults,
                       request.fault = "updateShared", request.now)

\* the line the invocation printed, the empty line when it printed none
Line(r) == IF Len(r.out) > 0 THEN r.out[1] ELSE << >>

\* C6: when SetStatus fails with PreconditionFailed and the no-fail flag is
\* set, the entry point returns no error, prints one line that starts with
\* "Skipped" and contains the current status and every allowed status, and
\* leaves the store unchanged.
C6_SkipPolicy ==
  (Called /\ result.setErr.kind = "PreconditionFailed" /\ request.noFail) =>
     /\ result.err.kind = "nil"
     /\ Len(result.out) = 1
     /\ Line(result)[1] = "Skipped: "
     /\ Contains(Line(result), StatusString(CurrentStatus))
     /\ \A s \in Range(request.fromStatuses) : Contains(Line(result), s)
     /\ releases = before

\* C6 witness: a skipped invocation with a two-element allowed list
C6_Witness ==
  /\ Called /\ request.noFail
  /\ result.setErr.kind = "PreconditionFailed"
  /\ request.fromStatuses = << "deployed", "failed" >>
  /\ CurrentStatus = "StatusPendingUpgrade"
  /\ result.err.kind = "nil"

\* C7: on the same store and the same arguments failing the precondition,
\* the run with the flag set is skipped without error, the run with it unset
\* fails with PreconditionFailed; both carry the same current status and
\* allowed list, and both leave the store unchanged.
C7_SkipFailSymmetry ==
  (Called /\ result.setErr.kind = "PreconditionFailed") =>
     LET skip == IF request.noFail THEN result ELSE Rerun(TRUE)
         fail == IF request.noFail THEN Rerun(FALSE) ELSE result
     IN  /\ skip.err.kind = "nil"
         /\ Len(skip.out) = 1
         /\ fail.err.kind = "PreconditionFailed"
         /\ fail.out = << >>
         /\ fail.err.currentStatus = CurrentStatus
         /\ statusListToStrings(fail.err.allowedStatuses) = request.fromStatuses
         /\ Line(skip) = << "Skipped: " >> \o fail.err.msg \o << "\n" >>
         /\ skip.store = before
         /\ fail.store = before

\* C7 witness: a hard precondition failure whose flagged twin is skipped
C7_Witness ==
  /\ Called /\ ~ request.noFail
  /\ result.err.kind = "PreconditionFailed"
  /\ Rerun(TRUE).err.kind = "nil"
  /\ Len(Rerun(TRUE).out) = 1

\* every entry of the --from list and the target are canonical strings
InputsValid ==
  /\ request.statusStr \in Canonical
  /\ Range(request.fromStatuses) \subseteq Canonical

\* the request passes the precondition on the store it found
PreconditionHolds ==
  \/ Len(request.fromStatuses) = 0
  \/ StatusString(CurrentStatus) \in Range(request.fromStatuses)

\* the error kind other than PreconditionFailed that the request, the store
\* and the fault call for, "none" when they call for none
OtherErrorDue ==
  IF ~ InputsValid THEN "InvalidStatus"
  ELSE IF request.fault = "factory" THEN "ConfigurationUnavailable"
  ELSE IF ~ Found
  THEN IF request.rev > 0 THEN "RevisionLookupFailed" ELSE "ReleaseNotFound"
  ELSE IF PreconditionHolds /\ request.fault \in UpdateFaults
  THEN "PersistenceFailed"
  ELSE "none"

C9_ReleaseNotFoundWarns ==
  (Done /\ InputsValid /\ request.fault = "none" /\ request.rev = 0
        /\ ~ request.noFail /\ ~ Found) =>
     /\ result.err.kind = "nil"
     /\ \E i \in 1..Len(result.out) :
          /\ Contains(result.out[i], "Warning")
          /\ Contains(result.out[i], request.releaseName)

\* C10: for a name or revision without a record, SetStatus returns
\* ReleaseNotFound with the name when the selector is latest, and
\* RevisionLookupFailed with the name, the revision and the store's cause
\* when a revision r > 0 is given; the store is unchanged either way.
C10_NotFoundDistinction ==
  (Called /\ ~ Found) =>
     /\ releases = before
     /\ request.rev = 0 =>
          /\ result.setErr.kind = "ReleaseNotFound"
          /\ result.setErr.releaseName = request.releaseName
     /\ request.rev > 0 =>
          /\ result.setErr.kind = "RevisionLookupFailed"
          /\ result.setErr.releaseName = request.releaseName
          /\ result.setErr.revision = request.rev
          /\ result.setErr.cause = ErrReleaseNotFound.kind
          /\ Contains(result.setErr.msg, request.releaseName)
          /\ Contains(result.setErr.msg, ToString(request.rev))
          /\ Contains(result.setErr.msg, ErrReleaseNotFound.msg[1])

\* C10 witness: an existing name with a revision beyond its last one
C10_Witness ==
  /\ Called /\ ~ Found
  /\ request.releaseName = "r1" /\ request.rev = MaxRev + 1
  /\ result.setErr.kind = "RevisionLookupFailed"

\* C11: when the target string or an entry of the --from list is not
\* canonical, the entry point fails with an invalid-status error, the
\* configuration factory is not called, no store call is made and the store
\* is unchanged.
C11_ValidationBeforeStore ==
  (Done /\ ~ InputsValid) =>
     /\ result.err.kind = "InvalidStatus"
     /\ result.calls = << >>
     /\ ~ result.called
     /\ releases = before

\* C11 witness: a valid target, an invalid second --from entry and a factory
\* that would have failed
C11_Witness ==
  /\ Done
  /\ request.statusStr \in Canonical
  /\ Len(request.fromStatuses) = 2
  /\ request.fromStatuses[2] \notin Canonical
  /\ request.fault = "factory"
  /\ result.err.kind = "InvalidStatus"

\* C12: when Update fails, SetStatus returns PersistenceFailed naming the
\* release and the cause, and the stored record is what it was before.
C12_FailedUpdateLeavesRecord ==
  (Called /\ Found /\ PreconditionHolds /\ request.fault \in UpdateFaults) =>
     /\ result.setErr.kind = "PersistenceFailed"
     /\ result.setErr.releaseName = request.releaseName
     /\ result.setErr.cause = ErrReleaseNotFound.kind
     /\ releases[ReqKey] = before[ReqKey]

\* C13: when the configuration factory fails, the entry point returns the
\* "failed to create configuration" error and makes no store call.
C13_FactoryFailure ==
  (Done /\ InputsValid /\ request.fault = "factory") =>
     /\ result.err.kind = "ConfigurationUnavailable"
     /\ result.err.msg[1] = "failed to create configuration: "
     /\ result.err.cause = ErrConfig.kind
     /\ result.calls = << "factory" >>
     /\ ~ result.called
     /\ releases = before

\* C13 witness: a failing factory for a request that would have succeeded
C13_Witness ==
  /\ Done /\ InputsValid /\ Found
  /\ request.fault = "factory"
  /\ request.rev = 1
  /\ result.err.kind = "ConfigurationUnavailable"

\* C14: for a canonical string, rendering what ParseStatus returns gives
\* the string back, and two different canonical strings parse to different
\* statuses; for any other string ParseStatus fails with an invalid-status
\* error.
C14_VocabularyBijection ==
  parses # << >> =>
     /\ \A i \in { 1, 2 } :
          /\ texts[i] \in Canonical =>
               /\ parses[i].err.kind = "nil"
               /\ parses[i].status \in Statuses
               /\ StatusString(parses[i].status) = texts[i]
          /\ texts[i] \notin Canonical =>
               /\ parses[i].err.kind = "InvalidStatus"
               /\ parses[i].err.input = texts[i]
     /\ (texts[1] \in Canonical /\ texts[2] \in Canonical /\ texts[1] # texts[2])
          => parses[1].status # parses[2].status

\* C14 witness: a canonical string parsed next to the same word capitalised
C14_Witness ==
  /\ parses # << >>
  /\ texts = << "deployed", "Deployed" >>
  /\ parses[1].status = "StatusDeployed"
  /\ parses[2].err.kind = "InvalidStatus"

AllowedGiven ==
  [ i \in 1..Len(request.fromStatuses) |->
      CHOOSE st \in Statuses : StatusString(st) = request.fromStatuses[i] ]

\* C16: a PreconditionFailed error carries the status the resolved record
\* had when read and the allowed statuses as supplied, in their order; its
\* message contains the canonical string of each of them.
C16_PreconditionErrorContents ==
  (Called /\ result.setErr.kind = "PreconditionFailed") =>
     /\ result.setErr.currentStatus = CurrentStatus
     /\ result.setErr.allowedStatuses = AllowedGiven
     /\ Contains(result.setErr.msg, StatusString(CurrentStatus))
     /\ \A s \in Range(request.fromStatuses) : Contains(result.setErr.msg, s)

\* C16 witness: a failure with two different allowed statuses
C16_Witness ==
  /\ Called /\ result.setErr.kind = "PreconditionFailed"
  /\ request.fromStatuses = << "failed", "deployed" >>
  /\ CurrentStatus = "StatusSuperseded"
  /\ result.setErr.allowedStatuses = << "StatusFailed", "StatusDeployed" >>

\* the first string of the request that validation rejects
Offending ==
  IF request.statusStr \notin Canonical THEN request.statusStr
  ELSE LET bad == { i \in 1..Len(request.fromStatuses) :
                      request.fromStatuses[i] \notin Canonical }
       IN  request.fromStatuses[CHOOSE i \in bad : \A j \in bad : i <= j]

\* the eight valid strings in declaration order, comma-space joined
ValidList ==
  << "unknown", ", ", "deployed", ", ", "superseded", ", ", "failed", ", ",
     "uninstalling", ", ", "pending-install", ", ", "pending-upgrade", ", ",
     "pending-rollback" >>

\* C17: an invalid-status failure of the entry point carries the offending
\* string and, after "Valid statuses: ", the eight valid strings in
\* declaration order joined by comma-space.
C17_InvalidStatusMessage ==
  (Done /\ ~ InputsValid) =>
     /\ result.err.kind = "InvalidStatus"
     /\ result.err.input = Offending
     /\ Contains(result.err.msg, Offending)
     /\ \E i \in 1..Len(result.err.msg) :
          /\ result.err.msg[i] = "\nValid statuses: "
          /\ SubSeq(result.err.msg, i + 1, Len(result.err.msg)) = ValidList

\* C17 witness: a valid --from entry followed by an invalid one
C17_Witness ==
  /\ Done
  /\ request.statusStr = "failed"
  /\ request.fromStatuses = << "deployed", "bogus" >>
  /\ result.err.input = "bogus"
  /\ result.err.msg[1] = "invalid --from status "

\* C19: revision 0 goes to the latest-lookup, and a negative revision is
\* rejected as an input error: it reaches no store lookup and changes
\* nothing.
C19_RevisionBoundary ==
  (Done /\ InputsValid /\ request.fault = "none") =>
     /\ request.rev = 0 =>
          /\ Contains(result.calls, "Last")
          /\ ~ Contains(result.calls, "Get")
     /\ request.rev < 0 =>
          /\ result.err.kind # "nil"
          /\ ~ Contains(result.calls, "Last")
          /\ ~ Contains(result.calls, "Get")
          /\ releases = before

\* C18: the Update of a concurrent invocation is applied whatever the
\* record holds by then: after it the record read by the invocation that
\* wrote last has that invocation's target status and description.
C18_LastWriterWins ==
  lastWrite.proc # "" =>
     LET call == procs[lastWrite.proc]
     IN  /\ lastWrite.key \in DOMAIN releases
         /\ releases[lastWrite.key].status = call.status
         /\ releases[lastWrite.key].description =
              << "status set to ", StatusString(call.status) >>
         /\ call.err.kind = "nil"

\* C18 witness: the other invocation wrote the same record between this
\* one's read and write, and what it wrote is outside this one's allowed set
C18_Witness ==
  /\ lastWrite.proc # ""
  /\ \A p \in Procs : procs[p].at = "done" /\ procs[p].err.kind = "nil"
  /\ \A p \in Procs : << procs[p].rel.name, procs[p].rel.version >> = lastWrite.key
  /\ LET call == procs[lastWrite.proc]
     IN  /\ Len(call.allowedFromStatuses) > 0
         /\ lastWrite.statusAtWrite # call.currentStatus
         /\ ~ PreconditionPasses(lastWrite.statusAtWrite,
                                 call.allowedFromStatuses)
         /\ releases[lastWrite.key].status = call.status

\* C20: the Update of an invocation stores the record it holds at that
\* record's own name and revision, and leaves every other record, a newer
\* revision included, as it was.
C20_UpdateKeyedByRecordRead ==
  [][ \A p \in Procs :
        RaceWrite(p) =>
          LET k == << procs[p].rel.name, procs[p].rel.version >>
          IN  /\ DOMAIN releases' = DOMAIN releases
              /\ releases'[k] = procs[p].rel
              /\ \A j \in DOMAIN releases \ { k } : releases'[j] = releases[j]
    ]_vars

\* C20 witness: a call for the latest revision wrote the revision it had
\* read after a newer one had been stored, and the newer one is untouched
C20_Witness ==
  /\ lastWrite.proc # ""
  /\ procs[lastWrite.proc].revision = 0
  /\ lastWrite.latestAtWrite = MaxRev + 1
  /\ lastWrite.key = << "r1", MaxRev >>
  /\ releases[<< "r1", MaxRev >>].status = procs[lastWrite.proc].status
  /\ releases[<< "r1", MaxRev + 1 >>] =
       Release("r1", MaxRev + 1, "StatusDeployed", << "Upgrade complete" >>, 0)

\* the number of entries of a call list that are among the given names
Count(calls, names) == Cardinality({ i \in 1..Len(calls) : calls[i] \in names })

\* C21: an invocation makes at most one store read and at most one store
\* write; a write comes only after its own read found the record and its
\* precondition passed, and a failed read or precondition is followed by no
\* write.
C21_OneReadOneWrite ==
  Done =>
     /\ Count(result.calls, { "Get", "Last" }) <= 1
     /\ Count(result.calls, { "Update" }) <= 1
     /\ Contains(result.calls, "Update") =>
          /\ result.calls
               = << "factory", IF request.rev > 0 THEN "Get" ELSE "Last",
                    "Update" >>
          /\ Found
          /\ PreconditionHolds
     /\ (Called /\ (~ Found \/ ~ PreconditionHolds)) =>
          /\ ~ Contains(result.calls, "Update")
          /\ releases = before

\* C21 witness: the Update failed and was not tried again
C21_Witness ==
  /\ Done
  /\ request.fault = "update"
  /\ result.err.kind = "PersistenceFailed"
  /\ result.calls = << "factory", "Last", "Update" >>

\* C22: whatever invocations have run, the store holds the (name, revision)
\* keys it started with.
C22_KeysPreserved ==
  DOMAIN releases = DOMAIN InitialReleases("StatusDeployed")

\* C22 witness: the third invocation of a sequence has returned, after a
\* failure, and both revisions of "r1" have been rewritten
C22_Witness ==
  /\ Done
  /\ clock = 4
  /\ result.err.kind # "nil"
  /\ releases[<< "r1", 1 >>].lastDeployed > 0
  /\ releases[<< "r1", MaxRev >>].lastDeployed > 0

\* a store with every timestamp moved by d
Retimed(store, d) ==
  [ k \in DOMAIN store |->
      [ store[k] EXCEPT !.lastDeployed = store[k].lastDeployed + d ] ]

\* the status and description of every record of a store
Visible(store) ==
  [ k \in DOMAIN store |->
      << store[k].status, store[k].description >> ]

\* the invocation of the request at a later time on the store it found with
\* other timestamps
Twin ==
  runWithConfigFactory(Retimed(before, 5), request.releaseName,
                       request.statusStr, request.rev, request.fromStatuses,
                       request.noFail, request.fault # "factory",
                       request.fault \notin UpdateFaults,
                       request.fault = "updateShared", request.now + 3)

\* C23: the same request on stores that differ in timestamps only, run at
\* different times, has the same outcome, prints the same, makes the same
\* calls and leaves the same status and description in every record.
C23_Determinism ==
  Done =>
     /\ Twin.err = result.err
     /\ Twin.out = result.out
     /\ Twin.calls = result.calls
     /\ Visible(Twin.store) = Visible(releases)

\* C23 witness: a record is rewritten, and its twin gets the other time
C23_Witness ==
  /\ Called /\ result.err.kind = "nil"
  /\ Len(request.fromStatuses) > 0
  /\ releases[ReqKey].lastDeployed = request.now
  /\ Twin.store[ReqKey].lastDeployed = request.now + 3
  /\ Twin.store # releases

\* SetStatus on the store the invocation found, with another allowed list
WithAllowed(allowedFromStatuses) ==
  SetStatus(before, request.releaseName,
            ParseStatus(request.statusStr).status, request.rev,
            allowedFromStatuses, request.now,
            request.fault \notin UpdateFaults, request.fault = "updateShared")

\* C24: an allowed list with the same entries in another order or repeated
\* gives the same precondition result and the same store.
C24_AllowedIsASet ==
  Called =>
     \A l \in ValidFromLists(MaxFrom) :
        Range(l) = Range(request.fromStatuses) =>
           LET other == WithAllowed(ParseFrom(l, 1, << >>).allowed)
           IN  /\ (other.err.kind = "PreconditionFailed")
                     = (result.setErr.kind = "PreconditionFailed")
               /\ other.err.kind = result.setErr.kind
               /\ other.store = releases

\* C24 witness: the current status is the second entry of the list, and the
\* list in the other order and a list repeating it are accepted as well
C24_Witness ==
  /\ Called
  /\ request.fromStatuses = << "failed", "deployed" >>
  /\ result.err.kind = "nil"
  /\ CurrentStatus = "StatusDeployed"
  /\ WithAllowed(<< "StatusDeployed", "StatusFailed" >>).err.kind = "nil"
  /\ WithAllowed(<< "StatusDeployed", "StatusDeployed" >>).store = releases

\* the outcomes a returned invocation shows: the error kind it returned, and
\* Applied or Skipped by the line it printed
Outcomes(r) ==
  (IF r.err.kind # "nil" THEN { r.err.kind } ELSE {})
    \cup (IF Len(r.out) > 0 /\ Line(r)[1] = "Release " THEN { "Applied" } ELSE {})
    \cup (IF Len(r.out) > 0 /\ Line(r)[1] = "Skipped: " THEN { "Skipped" } ELSE {})

\* the outcomes there are
OutcomeKinds ==
  { "Applied", "Skipped", "InvalidStatus", "ConfigurationUnavailable",
    "ReleaseNotFound", "RevisionLookupFailed", "PreconditionFailed",
    "PersistenceFailed" }

C26_PreconditionOnOwnRevision ==
  (Called /\ request.rev > 0 /\ Found /\ Len(request.fromStatuses) > 0) =>
     LET own == before[<< request.releaseName, request.rev >>].status
     IN  IF StatusString(own) \in Range(request.fromStatuses)
         THEN result.setErr.kind # "PreconditionFailed"
         ELSE /\ result.setErr.kind = "PreconditionFailed"
              /\ result.setErr.currentStatus = own

\* C26 witness: revision 1 is in the allowed list and is rewritten, while
\* the latest revision is outside the list
C26_Witness ==
  /\ Called /\ request.rev = 1 /\ Found
  /\ request.fromStatuses = << "failed" >>
  /\ before[<< "r1", 1 >>].status = "StatusFailed"
  /\ before[<< "r1", LatestVersion(before, "r1") >>].status # "StatusFailed"
  /\ LatestVersion(before, "r1") > 1
  /\ result.err.kind = "nil"
  /\ releases[<< "r1", 1 >>].status = ParseStatus(request.statusStr).status

\* the invocation of the request once more, on the store the first one left
Again ==
  runWithConfigFactory(releases, request.releaseName, request.statusStr,
                       request.rev, request.fromStatuses, request.noFail,
                       request.fault # "factory",
                       request.fault \notin UpdateFaults,
                       request.fault = "updateShared", request.now + 1)

\* C27: a successful request run once more leaves the same status and
\* description when its allowed list is empty; when the list is not empty
\* and lacks the target, the second run fails with PreconditionFailed on the
\* target as current status and leaves the store as the first run left it.
C27_RepeatedInvocation ==
  (Called /\ result.err.kind = "nil" /\ result.setErr.kind = "nil") =>
     /\ Len(request.fromStatuses) = 0 =>
          /\ Again.err.kind = "nil"
          /\ Again.setErr.kind = "nil"
          /\ Visible(Again.store) = Visible(releases)
     /\ (Len(request.fromStatuses) > 0
           /\ request.statusStr \notin Range(request.fromStatuses)) =>
          /\ Again.setErr.kind = "PreconditionFailed"
          /\ Again.setErr.currentStatus = ParseStatus(request.statusStr).status
          /\ Again.store = releases

\* C27 witness: deployed was set to failed from deployed, and the same
\* request once more is refused
C27_Witness ==
  /\ Called /\ result.err.kind = "nil" /\ result.setErr.kind = "nil"
  /\ request.fromStatuses = << "deployed" >>
  /\ request.statusStr = "failed"
  /\ ~ request.noFail
  /\ releases[ReqKey].status = "StatusFailed"
  /\ Again.err.kind = "PreconditionFailed"

\* C28: the target is validated before the --from entries, the entries in
\* their order, and both before the release is looked up: the error is that
\* of the first invalid string, and no call is made even for a release that
\* does not exist.
C28_ValidationOrder ==
  (Done /\ ~ InputsValid) =>
     /\ result.err.kind = "InvalidStatus"
     /\ result.calls = << >>
     /\ ~ result.called
     /\ releases = before
     /\ IF request.statusStr \notin Canonical
        THEN /\ result.err.msg[1] = "invalid status: "
             /\ result.err.msg[2] = request.statusStr
        ELSE /\ result.err.msg[1] = "invalid --from status "
             /\ result.err.input = Offending
             /\ \A s \in Range(request.fromStatuses) \ Canonical :
                  s # Offending => ~ Contains(result.err.msg, s)

\* C28 witness: a missing release, a valid target and two invalid --from
\* entries, the first of which is reported
C28_Witness ==
  /\ Done
  /\ request.releaseName = "r3"
  /\ request.statusStr = "failed"
  /\ request.fromStatuses = << "bogus", "Deployed" >>
  /\ result.err.kind = "InvalidStatus"
  /\ result.err.input = "bogus"

\* C29: a request for the status the record already has, with the
\* precondition passing, still calls Update, overwrites the description and
\* the timestamp and reports success.
C29_SameStatusStillWritten ==
  (Called /\ Found /\ PreconditionHolds /\ request.fault = "none"
     /\ StatusString(CurrentStatus) = request.statusStr) =>
     /\ result.err.kind = "nil"
     /\ Outcomes(result) = { "Applied" }
     /\ Count(result.calls, { "Update" }) = 1
     /\ releases[ReqKey].status = CurrentStatus
     /\ releases[ReqKey].description
          = << "status set to ", request.statusStr >>
     /\ releases[ReqKey].lastDeployed = request.now

\* C29 witness: a deployed record set to deployed from deployed gets a new
\* description and timestamp
C29_Witness ==
  /\ Called /\ Found
  /\ request.statusStr = "deployed"
  /\ request.fromStatuses = << "deployed" >>
  /\ CurrentStatus = "StatusDeployed"
  /\ before[ReqKey].description = << "Upgrade complete" >>
  /\ releases[ReqKey].description = << "status set to ", "deployed" >>
  /\ releases[ReqKey].lastDeployed > before[ReqKey].lastDeployed

\* C30: when the precondition passes, the invocation with the no-fail flag
\* the other way returns, prints and stores the same; and no invocation
\* with an empty allowed list is skipped.
C30_SkipFlagOnlyOnPreconditionFailure ==
  /\ (Called /\ Found /\ PreconditionHolds) =>
        /\ Rerun(~ request.noFail).err = result.err
        /\ Rerun(~ request.noFail).out = result.out
        /\ Rerun(~ request.noFail).store = releases
        /\ "Skipped" \notin Outcomes(result)
  /\ (Done /\ Len(request.fromStatuses) = 0) =>
        /\ "Skipped" \notin Outcomes(result)
        /\ "Skipped" \notin Outcomes(Rerun(TRUE))

\* C30 witness: the flag is set, the precondition matches and the status is
\* applied as without the flag
C30_Witness ==
  /\ Called /\ Found /\ request.noFail
  /\ request.fromStatuses = << "failed", "deployed" >>
  /\ PreconditionHolds
  /\ Outcomes(result) = { "Applied" }
  /\ releases # before
  /\ Rerun(FALSE).store = releases

====
